---- MODULE Spec2Model ----
(***************************************************************************)
(* Model of mlagents/trainers/trainer_metrics.py: the hierarchical timer   *)
(* (TimerNode, TimerStack, hierarchical_timer, get_timer_tree) and the     *)
(* flat per-brain recorder (TrainerMetrics).                               *)
(*                                                                         *)
(* Time is counted in clock ticks.  Python's None is the empty sequence    *)
(* and a present optional value v is <<v>>.                                *)
(***************************************************************************)
EXTENDS Integers, Sequences, FiniteSets, TLC

VARIABLES
    heap,     \* the TimerNode objects: heap[n] is the node with identity n
    stack,    \* TimerStack.stack, the active path (node identities)
    frames,   \* the open `with hierarchical_timer(...)` blocks, outermost first
    now,      \* the value perf_counter() returns
    tree,     \* the snapshot the timer operation just performed returned, if any
    raised,   \* the exception the last operation raised, "none" if it returned
    op,       \* the operation just performed
    entries,  \* history: completed scoped entries per <<parent, name>>
    order,    \* history: per node, the names in the order first pushed under it
    disc,     \* history: the push/start/end/pop discipline followed so far
    tm,       \* the TrainerMetrics object
    wall,     \* the value time() returns
    acc,      \* history: the experience-collection times gathered since the last
              \* row (n: whether any was, sum: their sum) and the sum at each row
    files     \* the row file at self.path and the tree file beside it, and
              \* (history) how many trees json.dump has written

vars == <<heap, stack, frames, now, tree, raised, op, entries, order, disc,
          tm, wall, acc, files>>

timerVars == <<heap, stack, frames, now, tree, entries, order, disc>>
metricVars == <<tm, wall, acc, files>>

\* ---------------------------------------------------------------- bounds
MaxNodes == 3    \* TimerNode objects ever allocated, the root included
MaxCount == 3    \* scoped entries explored, completed or open
MaxTime  == 2    \* last value of perf_counter()
MaxWall  == 3    \* last value of time()
MaxRows  == 2    \* rows explored
MaxAcc   == 2    \* largest accumulated experience-collection time explored

Names == {"a", "b"}
NodeIds == 1..MaxNodes

None == <<>>
Some(v) == <<v>>
Max(a, b) == IF a >= b THEN a ELSE b

\* ------------------------------------------------------------- TimerNode
NotRunning == -1

TimerNode == [children |-> <<>>, start_time |-> NotRunning, total |-> 0, count |-> 0]

\* mutant: a node counts as running only with a positive start time
_is_running_positive(h, n) == h[n].start_time > 0

_is_running(h, n) == h[n].start_time # NotRunning

_start(h, n, t) == [h EXCEPT ![n].start_time = t]

\* mutant: _end stores the elapsed time in place of adding it
_end_overwrite(h, n, t) ==
    [h EXCEPT ![n].total = t - h[n].start_time,
              ![n].count = @ + 1,
              ![n].start_time = NotRunning]

\* mutant: _end leaves the count as it was
_end_nocount(h, n, t) ==
    [h EXCEPT ![n].total = @ + (t - h[n].start_time),
              ![n].start_time = NotRunning]

_end(h, n, t) ==
    [h EXCEPT ![n].total = @ + (t - h[n].start_time),
              ![n].count = @ + 1,
              ![n].start_time = NotRunning]

\* ------------------------------------- dict (insertion-ordered) of children
\* a dict is a sequence of <<key, value>> pairs with distinct keys
DictHas(d, k) == \E i \in 1..Len(d) : d[i][1] = k

DictGet(d, k) ==
    IF DictHas(d, k)
    THEN Some(d[CHOOSE i \in 1..Len(d) : d[i][1] = k][2])
    ELSE None

\* mutant: a new key is put first instead of last
DictSet_front(d, k, v) ==
    IF DictHas(d, k)
    THEN [i \in 1..Len(d) |-> IF d[i][1] = k THEN <<k, v>> ELSE d[i]]
    ELSE <<<<k, v>>>> \o d

DictSet(d, k, v) ==
    IF DictHas(d, k)
    THEN [i \in 1..Len(d) |-> IF d[i][1] = k THEN <<k, v>> ELSE d[i]]
    ELSE Append(d, <<k, v>>)

\* ------------------------------------------------------------ TimerStack
root == 1

\* mutant: the lookup is skipped, every push allocates a node
push_always_new(h, st, name) ==
    LET current == st[Len(st)]
        next_timer == Len(h) + 1
    IN [heap |-> [Append(h, TimerNode) EXCEPT
                     ![current].children = DictSet(@, name, next_timer)],
        stack |-> Append(st, next_timer), node |-> next_timer]

\* mutant: a node found among the children is returned but not appended
push_noappend(h, st, name) ==
    LET current == st[Len(st)]
        found == DictGet(h[current].children, name)
        next_timer == IF found = None THEN Len(h) + 1 ELSE found[1]
        h1 == IF found = None
              THEN [Append(h, TimerNode) EXCEPT
                       ![current].children = DictSet(@, name, next_timer)]
              ELSE h
    IN [heap |-> h1,
        stack |-> IF found = None THEN Append(st, next_timer) ELSE st,
        node |-> next_timer]

\* mutant: push also starts the node it returns
push_started(h, st, name) ==
    LET current == st[Len(st)]
        found == DictGet(h[current].children, name)
        next_timer == IF found = None THEN Len(h) + 1 ELSE found[1]
        h1 == IF found = None
              THEN [Append(h, TimerNode) EXCEPT
                       ![current].children = DictSet(@, name, next_timer)]
              ELSE h
    IN [heap |-> _start(h1, next_timer, 0),
        stack |-> Append(st, next_timer), node |-> next_timer]

\* mutant: a new node is registered under the root, not under the top
push_under_root(h, st, name) ==
    LET current == st[Len(st)]
        found == DictGet(h[current].children, name)
        next_timer == IF found = None THEN Len(h) + 1 ELSE found[1]
        h1 == IF found = None
              THEN [Append(h, TimerNode) EXCEPT
                       ![root].children = DictSet(@, name, next_timer)]
              ELSE h
    IN [heap |-> h1, stack |-> Append(st, next_timer), node |-> next_timer]

\* mutant: pop(0), the first element is removed instead of the last
pop_first(st) == Tail(st)

\* push(name) on a non-empty stack: the heap and stack after it, and the
\* node it returns
push(h, st, name) ==
    LET current == st[Len(st)]
        found == DictGet(h[current].children, name)
        next_timer == IF found = None THEN Len(h) + 1 ELSE found[1]
        h1 == IF found = None
              THEN [Append(h, TimerNode) EXCEPT
                       ![current].children = DictSet(@, name, next_timer)]
              ELSE h
    IN [heap |-> h1, stack |-> Append(st, next_timer), node |-> next_timer]

pop(st) == SubSeq(st, 1, Len(st) - 1)

RECURSIVE SumTotals(_)
SumTotals(recs) ==
    IF recs = <<>> THEN 0
    ELSE recs[1].total + SumTotals(Tail(recs))

\* mutant: self is not clamped at zero
RECURSIVE get_timing_tree_noclamp(_, _)
get_timing_tree_noclamp(h, node) ==
    LET kids == h[node].children
        res == [total |-> h[node].total, count |-> h[node].count]
        child_res == [i \in 1..Len(kids) |->
                         [name |-> kids[i][1]] @@ get_timing_tree_noclamp(h, kids[i][2])]
        child_total == SumTotals(child_res)
        res1 == IF kids # <<>> THEN res @@ [children |-> child_res] ELSE res
    IN res1 @@ [self |-> h[node].total - child_total]

\* get_timing_tree(node) for a given node: the recursion of lines 186-202
RECURSIVE get_timing_tree(_, _)
get_timing_tree(h, node) ==
    LET kids == h[node].children
        res == [total |-> h[node].total, count |-> h[node].count]
        child_res == [i \in 1..Len(kids) |->
                         [name |-> kids[i][1]] @@ get_timing_tree(h, kids[i][2])]
        child_total == SumTotals(child_res)
        res1 == IF kids # <<>> THEN res @@ [children |-> child_res] ELSE res
    IN res1 @@ [self |-> Max(0, h[node].total - child_total)]

\* an exception leaving the operation unwinds the enclosing `with` blocks up
\* to the handler that catches it; hierarchical_timer has no try/finally, so
\* the generators unwound run neither _end() nor pop()
Unwind(fs, j) == SubSeq(fs, 1, Len(fs) - j)

\* ------------------------------------------------------- TrainerMetrics
\* A Python value of the recorder is tagged with its type.  A float counts
\* clock ticks of 0.4 ms; a str is the text format(c, ".3f") gives, held as
\* the number of thousandths it shows.
PyNone == [type |-> "NoneType", v |-> 0]
PyFloat(x) == [type |-> "float", v |-> x]
PyInt(x) == [type |-> "int", v |-> x]
PyStr(x) == [type |-> "str", v |-> x]

\* the truth value Python's `if x:` gives
Truthy(x) == x.type # "NoneType" /\ x.v # 0

\* format(c, ".3f") of a float of x ticks: x * 0.4 ms rounded to whole ms
\* (no tick count lies halfway between two thousandths)
Format3f(x) == PyStr((x * 4 + 5) \div 10)

\* line 84: format(c, ".3f") if isinstance(c, float) else c
format_cell(c) == IF c.type = "float" THEN Format3f(c.v) ELSE c

\* "{:0.3f}".format(c) raises TypeError for None
FormatRaises(c) == c.type = "NoneType"

\* ------------------------------------------------------------------ Init
TrainerMetrics ==
    [rows |-> <<>>,
     time_start_experience_collection |-> PyNone,
     time_training_start |-> PyFloat(1),
     last_buffer_length |-> PyNone,
     last_mean_return |-> PyNone,
     time_policy_update_start |-> PyNone,
     delta_last_experience_collection |-> PyNone,
     delta_policy_update |-> PyNone]

Init ==
    /\ heap = <<_start(<<TimerNode>>, root, 0)[root]>>
    /\ stack = <<root>>
    /\ frames = <<>>
    /\ now = 0
    /\ tree = None
    /\ raised = "none"
    /\ op = "__init__"
    /\ entries = [k \in NodeIds \X Names |-> 0]
    /\ order = [n \in NodeIds |-> <<>>]
    /\ disc = [ok |-> TRUE, open |-> <<>>]
    /\ tm = TrainerMetrics
    /\ wall = 1
    /\ acc = [n |-> 0, sum |-> 0, rows |-> <<>>]
    /\ files = [csv |-> None, json |-> None, dumps |-> 0]

RECURSIVE TotalCount(_)
TotalCount(h) == IF h = <<>> THEN 0 ELSE h[1].count + TotalCount(Tail(h))

\* ------------------------------------------------- the scoped helper
\* lines 210-212: push, _start, yield
hierarchical_timer_enter(name) ==
    LET p == push(heap, stack, name)
        parent == stack[Len(stack)]
    IN /\ stack # <<>>
       /\ Len(p.heap) <= MaxNodes
       /\ TotalCount(heap) - heap[root].count + Len(frames) < MaxCount
       /\ op' = "hierarchical_timer"
       /\ stack' = p.stack
       /\ order' = [order EXCEPT ![parent] =
                       IF \E i \in 1..Len(@) : @[i] = name THEN @ ELSE Append(@, name)]
       /\ IF _is_running(p.heap, p.node)
          THEN /\ heap' = p.heap
               /\ raised' = "AssertionError"
               /\ \E j \in 0..Len(frames) : frames' = Unwind(frames, j)
          ELSE /\ heap' = _start(p.heap, p.node, now)
               /\ raised' = "none"
               /\ frames' = Append(frames, [node |-> p.node, name |-> name,
                                            parent |-> parent, depth |-> Len(stack)])
       /\ tree' = None
       /\ UNCHANGED <<now, entries, disc, metricVars>>

\* lines 213-214: the wrapped region returned; _end, pop
hierarchical_timer_exit ==
    /\ frames # <<>>
    /\ LET f == frames[Len(frames)]
       IN /\ op' = "exit"
          /\ IF ~_is_running(heap, f.node)
             THEN /\ raised' = "AssertionError"
                  /\ \E j \in 1..Len(frames) : frames' = Unwind(frames, j)
                  /\ UNCHANGED <<heap, stack, entries>>
             ELSE /\ heap' = _end(heap, f.node, now)
                  /\ stack' = pop(stack)
                  /\ frames' = Unwind(frames, 1)
                  /\ entries' = [entries EXCEPT ![<<f.parent, f.name>>] = @ + 1]
                  /\ raised' = "none"
    /\ tree' = None
    /\ UNCHANGED <<now, order, disc, metricVars>>

\* line 212: the wrapped region raised; the exception is thrown into the
\* generator at its yield and leaves it, and every enclosing block up to
\* the handler likewise
hierarchical_timer_raise ==
    /\ frames # <<>>
    /\ \E j \in 1..Len(frames) : frames' = Unwind(frames, j)
    /\ op' = "raise"
    /\ raised' = "Exception"
    /\ tree' = None
    /\ UNCHANGED <<heap, stack, now, entries, order, disc, metricVars>>

\* get_timer_tree() / get_timing_tree() with no argument, lines 182-202
get_timer_tree ==
    /\ op' = "get_timing_tree"
    /\ IF ~_is_running(heap, root)
       THEN /\ raised' = "AssertionError"
            /\ \E j \in 0..Len(frames) : frames' = Unwind(frames, j)
            /\ tree' = None
            /\ UNCHANGED heap
       ELSE /\ heap' = _end(heap, root, now)
            /\ tree' = Some(get_timing_tree(heap', root))
            /\ raised' = "none"
            /\ UNCHANGED frames
    /\ UNCHANGED <<stack, now, entries, order, disc, metricVars>>

\* mutant: the root is ended whether or not a node was given
end_root_if_none_always(h, node, t) == _end(h, root, t)

\* lines 182-184: only a call without a node ends the root
end_root_if_none(h, node, t) == IF node = None THEN _end(h, root, t) ELSE h

\* TimerStack.get_timing_tree(node) with a node given, lines 181-202: the
\* test at line 182 fails, nothing is ended, the record is built by reading
TimerStack_get_timing_tree(n) ==
    /\ op' = "get_timing_tree(node)"
    /\ heap' = end_root_if_none(heap, Some(n), now)
    /\ tree' = Some(get_timing_tree(heap', n))
    /\ raised' = "none"
    /\ UNCHANGED <<stack, frames, now, entries, order, disc, metricVars>>

\* perf_counter() advances
Tick ==
    /\ now < MaxTime
    /\ now' = now + 1
    /\ op' = "tick"
    /\ tree' = None
    /\ raised' = "none"
    /\ UNCHANGED <<heap, stack, frames, entries, order, disc, metricVars>>

Next ==
    \/ \E name \in Names : hierarchical_timer_enter(name)
    \/ hierarchical_timer_exit
    \/ hierarchical_timer_raise
    \/ get_timer_tree
    \/ Tick

Spec == Init /\ [][Next]_vars

\* the scoped helper with records taken of any node as well as of the whole
\* tree, the clock moving; one region name is used, so the nodes form a
\* chain
NextSnapshot ==
    \/ hierarchical_timer_enter("a")
    \/ hierarchical_timer_exit
    \/ hierarchical_timer_raise
    \/ get_timer_tree
    \/ \E n \in 1..Len(heap) : TimerStack_get_timing_tree(n)
    \/ Tick

SpecSnapshot == Init /\ [][NextSnapshot]_vars

\* ------------------------------------------ the operations called directly
\* the push/start/.../end/pop discipline: disc.ok says the calls so far were
\* properly nested, disc.open lists the regions pushed and not yet popped
Broken == [ok |-> FALSE, open |-> <<>>]

DiscTop == disc.open[Len(disc.open)]

DiscSetTop(phase) ==
    [disc EXCEPT !.open = [@ EXCEPT ![Len(@)] = [@ EXCEPT !.phase = phase]]]

\* TimerStack.push(name), lines 169-176
TimerStack_push(name) ==
    /\ op' = "push"
    /\ tree' = None
    /\ IF stack = <<>>
       THEN /\ raised' = "IndexError"
            /\ disc' = Broken
            /\ UNCHANGED <<heap, stack>>
       ELSE LET p == push(heap, stack, name)
            IN /\ Len(p.heap) <= MaxNodes
               /\ heap' = p.heap
               /\ stack' = p.stack
               /\ raised' = "none"
               /\ disc' = IF disc.ok /\ (disc.open = <<>> \/ DiscTop.phase = "started")
                          THEN [disc EXCEPT !.open =
                                   Append(@, [node |-> p.node, phase |-> "pushed"])]
                          ELSE Broken
    /\ UNCHANGED <<frames, now, entries, order, metricVars>>

\* TimerStack.pop(), lines 178-179
TimerStack_pop ==
    /\ op' = "pop"
    /\ tree' = None
    /\ IF stack = <<>>
       THEN /\ raised' = "IndexError"
            /\ disc' = Broken
            /\ UNCHANGED stack
       ELSE /\ stack' = pop(stack)
            /\ raised' = "none"
            /\ disc' = IF disc.ok /\ disc.open # <<>> /\ DiscTop.phase = "ended"
                       THEN [disc EXCEPT !.open = SubSeq(@, 1, Len(@) - 1)]
                       ELSE Broken
    /\ UNCHANGED <<heap, frames, now, entries, order, metricVars>>

\* TimerNode._start() on node n, lines 146-148
TimerNode_start(n) ==
    /\ op' = "_start"
    /\ tree' = None
    /\ IF _is_running(heap, n)
       THEN /\ raised' = "AssertionError"
            /\ UNCHANGED heap
       ELSE /\ raised' = "none"
            /\ heap' = _start(heap, n, now)
    /\ disc' = IF disc.ok /\ disc.open # <<>> /\ DiscTop = [node |-> n, phase |-> "pushed"]
               THEN DiscSetTop("started")
               ELSE Broken
    /\ UNCHANGED <<stack, frames, now, entries, order, metricVars>>

\* TimerNode._end() on node n, lines 150-155
TimerNode_end(n) ==
    /\ op' = "_end"
    /\ tree' = None
    /\ IF ~_is_running(heap, n)
       THEN /\ raised' = "AssertionError"
            /\ UNCHANGED heap
       ELSE /\ TotalCount(heap) < MaxCount
            /\ raised' = "none"
            /\ heap' = _end(heap, n, now)
    /\ disc' = IF disc.ok /\ disc.open # <<>> /\ DiscTop = [node |-> n, phase |-> "started"]
               THEN DiscSetTop("ended")
               ELSE Broken
    /\ UNCHANGED <<stack, frames, now, entries, order, metricVars>>

\* the direct calls are explored at one reading of perf_counter(): what
\* push, pop, _start and _end accept, reject and change does not depend on
\* the durations measured
NextApi ==
    \/ \E name \in Names : TimerStack_push(name)
    \/ TimerStack_pop
    \/ \E n \in 1..Len(heap) : TimerNode_start(n)
    \/ \E n \in 1..Len(heap) : TimerNode_end(n)

SpecApi == Init /\ [][NextApi]_vars

\* -------------------------------------------- the TrainerMetrics operations
Deltas == {0, 1, 2}
Experiences == {200}
Returns == {3}

\* mutant: a second begin overwrites the recorded start
begin_overwrite(start, t) == PyFloat(t)

\* lines 47-48: the start is recorded only when none is recorded
begin(start, t) == IF start = PyNone THEN PyFloat(t) ELSE start

\* mutant: the elapsed time replaces what was accumulated
accumulate_overwrite(delta, curr_delta) == PyFloat(curr_delta)

\* lines 56-59
accumulate(delta, curr_delta) ==
    IF delta = PyNone THEN PyFloat(curr_delta) ELSE PyFloat(delta.v + curr_delta)

\* lines 43-48
start_experience_collection_timer ==
    /\ op' = "start_experience_collection_timer"
    /\ raised' = "none"
    /\ tm' = [tm EXCEPT !.time_start_experience_collection = begin(@, wall)]
    /\ UNCHANGED <<wall, acc, files, timerVars>>

\* lines 50-60
end_experience_collection_timer ==
    /\ op' = "end_experience_collection_timer"
    /\ raised' = "none"
    /\ LET start == tm.time_start_experience_collection
           curr_delta == wall - start.v
       IN /\ tm' = [tm EXCEPT
                       !.delta_last_experience_collection =
                           IF Truthy(start) THEN accumulate(@, curr_delta) ELSE @,
                       !.time_start_experience_collection = PyNone]
          /\ acc' = IF start # PyNone
                    THEN [acc EXCEPT !.n = 1, !.sum = @ + curr_delta]
                    ELSE acc
    /\ UNCHANGED <<wall, files, timerVars>>

\* lines 62-69
add_delta_step(delta) ==
    /\ tm.delta_last_experience_collection.v + delta <= MaxAcc
    /\ op' = "add_delta_step"
    /\ raised' = "none"
    /\ tm' = [tm EXCEPT !.delta_last_experience_collection =
                 IF Truthy(@) THEN PyFloat(@.v + delta) ELSE PyFloat(delta)]
    /\ acc' = [acc EXCEPT !.n = 1, !.sum = @ + delta]
    /\ UNCHANGED <<wall, files, timerVars>>

\* lines 71-79
start_policy_update_timer(number_experiences, mean_return) ==
    /\ op' = "start_policy_update_timer"
    /\ raised' = "none"
    /\ tm' = [tm EXCEPT !.last_buffer_length = PyInt(number_experiences),
                        !.last_mean_return = PyFloat(mean_return),
                        !.time_policy_update_start = PyFloat(wall)]
    /\ UNCHANGED <<wall, acc, files, timerVars>>

\* lines 81-94
_add_row(t, delta_train_start) ==
    [t EXCEPT !.rows = Append(@, <<format_cell(t.delta_policy_update),
                                   format_cell(delta_train_start),
                                   format_cell(t.delta_last_experience_collection),
                                   format_cell(t.last_buffer_length),
                                   format_cell(t.last_mean_return)>>),
              !.delta_last_experience_collection = PyNone]

\* lines 96-120
end_policy_update ==
    /\ op' = "end_policy_update"
    /\ LET t1 == [tm EXCEPT !.delta_policy_update =
                     IF Truthy(tm.time_policy_update_start)
                     THEN PyFloat(wall - tm.time_policy_update_start.v)
                     ELSE PyInt(0)]
           delta_train_start == PyFloat(wall - tm.time_training_start.v)
       IN IF \/ FormatRaises(t1.delta_policy_update)
             \/ FormatRaises(delta_train_start)
             \/ FormatRaises(t1.delta_last_experience_collection)
             \/ FormatRaises(t1.last_mean_return)
          THEN /\ raised' = "TypeError"
               /\ tm' = t1
               /\ UNCHANGED acc
          ELSE /\ Len(tm.rows) < MaxRows
               /\ raised' = "none"
               /\ tm' = _add_row(t1, delta_train_start)
               /\ acc' = [n |-> 0, sum |-> 0, rows |-> Append(acc.rows, acc.sum)]
    /\ UNCHANGED <<wall, files, timerVars>>

\* lines 11-18
FIELD_NAMES ==
    <<"Brain name", "Time to update policy", "Time since start of training",
      "Time for last experience collection",
      "Number of experiences used for training", "Mean return">>

\* mutant: the tree is taken before any file is opened
export_tree_first(f, rows, snapshot) ==
    IF snapshot = None THEN f
    ELSE [csv |-> Some(<<FIELD_NAMES>> \o rows), json |-> Some(snapshot),
          dumps |-> f.dumps + 1]

\* lines 126-134, the files after the call: the row file is opened for
\* writing and gets the header and the rows, then the tree file is opened
\* for writing (emptied), then get_timer_tree() is evaluated (snapshot is
\* None when it raised) and its result dumped.  The path is taken to hold
\* "csv", so that the two files differ.
export(f, rows, snapshot) ==
    LET f1 == [f EXCEPT !.csv = Some(<<FIELD_NAMES>> \o rows)]
        f2 == [f1 EXCEPT !.json = Some(<<>>)]
    IN IF snapshot = None THEN f2
       ELSE [f2 EXCEPT !.json = Some(snapshot), !.dumps = @ + 1]

\* write_training_metrics(), lines 122-134, on the default timer stack
write_training_metrics ==
    /\ op' = "write_training_metrics"
    /\ tree' = None
    /\ IF ~_is_running(heap, root)
       THEN /\ raised' = "AssertionError"
            /\ files' = export(files, tm.rows, None)
            /\ \E j \in 0..Len(frames) : frames' = Unwind(frames, j)
            /\ UNCHANGED heap
       ELSE /\ raised' = "none"
            /\ heap' = _end(heap, root, now)
            /\ files' = export(files, tm.rows, Some(get_timing_tree(heap', root)))
            /\ UNCHANGED frames
    /\ UNCHANGED <<stack, now, entries, order, disc, tm, wall, acc>>

\* time() advances
TickWall ==
    /\ wall < MaxWall
    /\ wall' = wall + 1
    /\ op' = "tick"
    /\ raised' = "none"
    /\ UNCHANGED <<tm, acc, files, timerVars>>

NextMetrics ==
    \/ start_experience_collection_timer
    \/ end_experience_collection_timer
    \/ \E delta \in Deltas : add_delta_step(delta)
    \/ \E n \in Experiences, r \in Returns : start_policy_update_timer(n, r)
    \/ end_policy_update
    \/ TickWall

SpecMetrics == Init /\ [][NextMetrics]_vars

\* ------------------------------------- the recorder writing its files
\* the recorder gathers rows and is written out, more than once, while the
\* default timer stack is used through the scoped helper and snapshots;
\* both clocks stand still, one region name and one delta are used
NextWrite ==
    \/ hierarchical_timer_enter("a")
    \/ hierarchical_timer_exit
    \/ get_timer_tree
    \/ write_training_metrics
    \/ add_delta_step(0)
    \/ \E e \in Experiences, r \in Returns : start_policy_update_timer(e, r)
    \/ end_policy_update

SpecWrite == Init /\ [][NextWrite]_vars

\* ======================================================== claims (Spec)
\* the totals of a node's direct children, read from the nodes themselves
RECURSIVE ChildTotals(_)
ChildTotals(kids) ==
    IF kids = <<>> THEN 0
    ELSE heap[kids[1][2]].total + ChildTotals(Tail(kids))

\* C1: every exit of a hierarchical_timer block, by return or by a raised
\* exception, ends the node the block pushed and pops the stack: the active
\* path is as deep after the exit as before the entry and the node no
\* longer runs.
C1_ExitEndsAndPops ==
    [][Len(frames') < Len(frames) =>
          LET f == frames[Len(frames') + 1]
          IN /\ Len(stack') = f.depth
             /\ heap'[f.node].start_time = NotRunning]_vars

\* C4: repeated entry of a name under the same parent reuses one node: the
\* parent never has two children of that name, after N >= 1 completed
\* entries the one child has count N, every open block holds that child,
\* and a node is allocated only for a name that was absent.
RECURSIVE C4_ChildCount(_)
C4_ChildCount(h) == IF h = <<>> THEN 0 ELSE Len(h[1].children) + C4_ChildCount(Tail(h))

C4_ReusesOneNode ==
    /\ \A p \in 1..Len(heap), n \in Names :
          LET kids == heap[p].children
              named == {i \in 1..Len(kids) : kids[i][1] = n}
          IN /\ Cardinality(named) <= 1
             /\ entries[<<p, n>>] >= 1 =>
                   /\ Cardinality(named) = 1
                   /\ \A i \in named : heap[kids[i][2]].count = entries[<<p, n>>]
    /\ \A k \in 1..Len(frames) :
          \E i \in 1..Len(heap[frames[k].parent].children) :
              heap[frames[k].parent].children[i] = <<frames[k].name, frames[k].node>>
    /\ Len(heap) = 1 + C4_ChildCount(heap)

C4_Witness ==
    \E p \in 1..Len(heap), n \in Names, m \in Names :
        /\ n # m
        /\ entries[<<p, n>>] >= 2
        /\ entries[<<p, m>>] >= 1

\* C5: in the record of every node of a snapshot, at every depth, total and
\* count are the node's and self is max(0, total - sum of the direct
\* children's totals), so never negative.
RECURSIVE C5_RecordOK(_, _)
C5_RecordOK(rec, n) ==
    LET kids == heap[n].children
        rest == heap[n].total - ChildTotals(kids)
    IN /\ rec.total = heap[n].total
       /\ rec.count = heap[n].count
       /\ rec.self = (IF rest > 0 THEN rest ELSE 0)
       /\ rec.self >= 0
       /\ kids # <<>> =>
             /\ "children" \in DOMAIN rec
             /\ Len(rec.children) = Len(kids)
             /\ \A i \in 1..Len(kids) : C5_RecordOK(rec.children[i], kids[i][2])

C5_SelfIsClampedRest == tree # None => C5_RecordOK(tree[1], root)

\* a snapshot in which some node's children sum to more than the node
C5_Witness ==
    /\ tree # None
    /\ \E n \in 1..Len(heap) : ChildTotals(heap[n].children) > heap[n].total
    /\ \E n \in 1..Len(heap) :
          heap[n].children # <<>> /\ ChildTotals(heap[n].children) < heap[n].total

\* C6: the record of a node has the key children iff a name was ever pushed
\* under the node; it then holds one record per child, tagged with the
\* child's name, in the order the names were first pushed under the node.
RECURSIVE C6_ChildrenOK(_, _)
C6_ChildrenOK(rec, n) ==
    /\ ("children" \in DOMAIN rec) <=> (order[n] # <<>>)
    /\ "children" \in DOMAIN rec =>
          /\ rec.children # <<>>
          /\ Len(rec.children) = Len(heap[n].children)
          /\ [i \in 1..Len(rec.children) |-> rec.children[i].name] = order[n]
          /\ \A i \in 1..Len(rec.children) :
                C6_ChildrenOK(rec.children[i], heap[n].children[i][2])

C6_ChildrenKeyAndOrder == tree # None => C6_ChildrenOK(tree[1], root)

\* a snapshot of a root with two children, "b" pushed before "a", one a leaf
C6_Witness ==
    /\ tree # None
    /\ order[root] = <<"b", "a">>
    /\ \E i \in 1..2 : "children" \notin DOMAIN tree[1].children[i]

\* C10: driven through the scoped helper and get_timing_tree, the active path
\* is never empty and starts at the root, and whenever a block is open (so
\* that its exit will pop) the path holds more than the root.
C10_RootStaysOnPath ==
    /\ stack # <<>>
    /\ stack[1] = root
    /\ frames # <<>> => Len(stack) >= 2

\* the innermost block of a nesting has just exited, back to the root alone
C10_Witness ==
    /\ op = "exit"
    /\ raised = "none"
    /\ stack = <<root>>
    /\ Len(heap) = MaxNodes

\* C15: between the steps of the scoped helper a node other than the root
\* is running iff it is on the active path; the root is running from
\* construction until the first snapshot without a node and never after.
C15_RunningIffOnPath ==
    /\ \A n \in 2..Len(heap) :
          (heap[n].start_time # NotRunning) <=> (\E i \in 1..Len(stack) : stack[i] = n)
    /\ (heap[root].start_time # NotRunning) <=> (heap[root].count = 0)

\* C16: when a snapshot is taken while the active path holds only the root,
\* after regions entered through the scoped helper alone and left by no
\* exception, the total of every node is at least the sum of the totals of
\* its direct children, and in the record of every node, the root included,
\* self is exactly the total minus that sum.  (A block left by an exception
\* stays on the active path for good, so the path holds only the root in
\* no state that follows one.)
RECURSIVE C16_SelfExact(_, _)
C16_SelfExact(rec, n) ==
    LET kids == heap[n].children
    IN /\ rec.self = heap[n].total - ChildTotals(kids)
       /\ \A i \in 1..Len(kids) : C16_SelfExact(rec.children[i], kids[i][2])

C16_TotalCoversChildren ==
    (tree # None /\ stack = <<root>>) =>
        /\ \A n \in 1..Len(heap) : heap[n].total >= ChildTotals(heap[n].children)
        /\ C16_SelfExact(tree[1], root)

\* a snapshot with all blocks closed: the root has a child that has a child
\* with time spent in it, and the child spent more than that
C16_Witness ==
    /\ tree # None
    /\ stack = <<root>>
    /\ \E n \in 2..Len(heap) :
          /\ heap[n].children # <<>>
          /\ ChildTotals(heap[n].children) >= 1
          /\ heap[n].total > ChildTotals(heap[n].children)
          /\ heap[root].total >= heap[n].total

\* ================================================ claims (SpecSnapshot)
\* C11: get_timing_tree() without a node changes nothing but the root, which
\* it ends (total grows by the time elapsed since its start, count by one,
\* not running afterwards); every other node, every children mapping and
\* the active path stay as they were.  get_timing_tree(node) with a node
\* given changes no node and not the active path.
C11_SnapshotFrame ==
    [][/\ (op' = "get_timing_tree" /\ raised' = "none") =>
             /\ heap' = [heap EXCEPT ![root] =
                            [children |-> heap[root].children,
                             start_time |-> NotRunning,
                             total |-> heap[root].total + (now - heap[root].start_time),
                             count |-> heap[root].count + 1]]
             /\ stack' = stack
       /\ op' = "get_timing_tree(node)" =>
             (raised' = "none" /\ tree' # None /\ heap' = heap /\ stack' = stack)]_vars

\* a record of a running node other than the root has just been taken, after
\* a snapshot without a node ended the root with time elapsed; every node
\* has gathered time
C11_Witness ==
    /\ op = "get_timing_tree(node)"
    /\ raised = "none"
    /\ tree # None
    /\ heap[root].start_time = NotRunning
    /\ Len(heap) = MaxNodes
    /\ \A n \in 1..Len(heap) : heap[n].total >= 1
    /\ \E n \in 2..Len(heap) :
          /\ heap[n].start_time # NotRunning
          /\ tree[1] = get_timing_tree(heap, n)
          /\ tree[1] # get_timing_tree(heap, root)

\* C12: the total and the count of every node never decrease.  The count of
\* a node grows by exactly one in a step that ends the node successfully
\* (the exit of a block, a snapshot without a node) and in no other step,
\* the total then grows by the time elapsed since the start; the count of
\* a node is the number of its completed start/end invocations.
C12_Ends(n) == heap[n].start_time # NotRunning /\ heap'[n].start_time = NotRunning

C12_TotalAndCountGrow ==
    [][/\ \A n \in 1..Len(heap) :
             /\ heap'[n].total >= heap[n].total
             /\ heap'[n].count = heap[n].count + (IF C12_Ends(n) THEN 1 ELSE 0)
             /\ C12_Ends(n) =>
                   /\ op' \in {"exit", "get_timing_tree"}
                   /\ raised' = "none"
                   /\ heap'[n].total = heap[n].total + (now - heap[n].start_time)
       /\ (op' = "exit" /\ raised' = "none") => C12_Ends(frames[Len(frames)].node)
       /\ (op' = "get_timing_tree" /\ raised' = "none") => C12_Ends(root)
       /\ \A p \in 1..Len(heap') : \A i \in 1..Len(heap'[p].children) :
             LET kid == heap'[p].children[i]
             IN heap'[kid[2]].count = entries'[<<p, kid[1]>>]
       /\ heap'[root].count = (IF heap'[root].start_time = NotRunning THEN 1 ELSE 0)
      ]_vars

\* a block has just exited for the second time on one node, which gathered
\* two ticks over its invocations, after a snapshot ended the root late
C12_Witness ==
    /\ op = "exit"
    /\ raised = "none"
    /\ heap[root].count = 1
    /\ heap[root].total >= 1
    /\ \E n \in 2..Len(heap) :
          /\ heap[n].count = 2
          /\ heap[n].total = 2
          /\ heap[n].start_time = NotRunning

\* ===================================================== claims (SpecApi)
\* C2: whenever a properly nested sequence of push/start ... end/pop calls on
\* a fresh TimerStack has completed (every region pushed has been started,
\* ended and popped, in that order), the active path is the root alone.
C2_NestedCallsReturnToRoot ==
    (disc.ok /\ disc.open = <<>>) => stack = <<root>>

\* a nested sequence, with a name repeated, has completed
C2_Witness ==
    /\ disc.ok
    /\ disc.open = <<>>
    /\ op = "pop"
    /\ \E n \in 2..Len(heap) : heap[n].children # <<>>
    /\ \E n \in 2..Len(heap) : heap[n].count >= 2

\* C3: _end() on a node that is not running and _start() on a node that is
\* running always fail the assertion, and leave start_time, total and count
\* of every node as they were.
C3_StartEndPreconditions ==
    [][\A n \in 1..Len(heap) :
          /\ (TimerNode_start(n) /\ heap[n].start_time # NotRunning) =>
                (raised' = "AssertionError" /\ heap' = heap)
          /\ (TimerNode_end(n) /\ heap[n].start_time = NotRunning) =>
                (raised' = "AssertionError" /\ heap' = heap)]_vars

\* _end() has just failed on a node that completed an invocation before and
\* has no start pending; elsewhere a started node is still running
C3_Witness ==
    /\ op = "_end"
    /\ raised = "AssertionError"
    /\ \A n \in 1..Len(heap) : n # 2 => heap[n].start_time = NotRunning
    /\ Len(heap) >= 2
    /\ heap[1].count >= 1
    /\ heap[2].start_time # NotRunning

\* C13: push(name) starts no timer and leaves start_time, total and count of
\* every node as they were.  It appends the node it returns to the active
\* path and, only when the name was absent under the previous top, adds one
\* new node (not running, total 0, count 0, no children) as that name's
\* child of the previous top; no other children mapping changes.  pop()
\* removes the last element of the active path and changes nothing else.
C13_PushAddsAtMostOneNode(name) ==
    LET top == stack[Len(stack)]
        kids == heap[top].children
        old == {i \in 1..Len(kids) : kids[i][1] = name}
    IN /\ \A n \in 1..Len(heap) :
             /\ heap'[n].start_time = heap[n].start_time
             /\ heap'[n].total = heap[n].total
             /\ heap'[n].count = heap[n].count
             /\ n # top => heap'[n].children = heap[n].children
       /\ old # {} =>
             /\ heap' = heap
             /\ \A i \in old : stack' = Append(stack, kids[i][2])
       /\ old = {} =>
             /\ Len(heap') = Len(heap) + 1
             /\ heap'[Len(heap')] = [children |-> <<>>, start_time |-> NotRunning,
                                     total |-> 0, count |-> 0]
             /\ heap'[top].children = Append(kids, <<name, Len(heap')>>)
             /\ stack' = Append(stack, Len(heap'))

C13_PushPopFrame ==
    [][/\ \A name \in Names :
             (TimerStack_push(name) /\ raised' = "none") =>
                 C13_PushAddsAtMostOneNode(name)
       /\ (TimerStack_pop /\ raised' = "none") =>
             /\ heap' = heap
             /\ Len(stack') = Len(stack) - 1
             /\ \A i \in 1..Len(stack') : stack'[i] = stack[i]]_vars

\* a push has just returned a node that existed, has a count and is not
\* running, while another node runs; an earlier push allocated a third node
C13_Witness ==
    /\ op = "push"
    /\ raised = "none"
    /\ Len(heap) = MaxNodes
    /\ Len(stack) >= 2
    /\ heap[stack[Len(stack)]].count >= 1
    /\ heap[stack[Len(stack)]].start_time = NotRunning
    /\ \E n \in 1..Len(heap) : heap[n].start_time # NotRunning

\* C14: the nodes form a tree rooted at the root: the root is nobody's
\* child, every other node is the child of exactly one parent under exactly
\* one name, and every node is reached from the root.  Every element of the
\* active path after the first is a child of the element before it.
C14_ParentLinks(n) ==
    {pk \in (1..Len(heap)) \X (1..MaxNodes) :
        /\ pk[2] <= Len(heap[pk[1]].children)
        /\ heap[pk[1]].children[pk[2]][2] = n}

\* the nodes reached from the nodes of s in at most k steps down
RECURSIVE C14_Reached(_, _)
C14_Reached(s, k) ==
    IF k = 0 THEN s
    ELSE C14_Reached(s \cup {heap[p].children[i][2] :
                                <<p, i>> \in {pk \in s \X (1..MaxNodes) :
                                                pk[2] <= Len(heap[pk[1]].children)}},
                     k - 1)

C14_NodesFormATree ==
    /\ C14_ParentLinks(root) = {}
    /\ \A n \in 2..Len(heap) : Cardinality(C14_ParentLinks(n)) = 1
    /\ C14_Reached({root}, Len(heap)) = 1..Len(heap)
    /\ \A i \in 1..(Len(stack) - 1) :
          \E k \in 1..Len(heap[stack[i]].children) :
              heap[stack[i]].children[k][2] = stack[i + 1]

\* the active path is three deep and one name is a child of two parents
C14_Witness ==
    /\ Len(stack) = 3
    /\ Len(heap) = MaxNodes
    /\ \E n \in Names :
          /\ DictHas(heap[root].children, n)
          /\ DictHas(heap[stack[2]].children, n)

\* ================================================= claims (SpecMetrics)
\* C7: the experience-collection duration accumulates over start/end cycles
\* and add_delta_step calls and is reset only by a row: the field holds the
\* sum of what was gathered since the last row (None when nothing was), an
\* end with no start open adds nothing, and the row holds that sum,
\* formatted to three decimals.
C7_CollectionTimeAccumulates ==
    /\ tm.delta_last_experience_collection =
          (IF acc.n = 0 THEN PyNone ELSE PyFloat(acc.sum))
    /\ Len(tm.rows) = Len(acc.rows)
    /\ \A i \in 1..Len(tm.rows) : tm.rows[i][3] = Format3f(acc.rows[i])

\* two rows have been emitted; the second holds 2 ticks gathered after the
\* first row, which held more, and more is being gathered for a third
C7_Witness ==
    /\ Len(tm.rows) = 2
    /\ acc.rows[2] = 2
    /\ acc.rows[1] > 2
    /\ tm.rows[1][3] # tm.rows[2][3]
    /\ tm.delta_last_experience_collection = PyFloat(1)

\* C8: end_policy_update with no start_policy_update_timer recorded does
\* not fail: the policy-update delta is 0 and exactly one row is appended.
C8_EndWithoutStartAppendsRow ==
    [][(end_policy_update /\ tm.time_policy_update_start = PyNone) =>
          /\ raised' = "none"
          /\ tm'.delta_policy_update.v = 0
          /\ Len(tm'.rows) = Len(tm.rows) + 1]_vars

\* C9: start_experience_collection_timer called while a start is recorded
\* keeps the recorded timestamp and changes no field of the recorder.
C9_BeginIsIdempotent ==
    [][(start_experience_collection_timer
            /\ tm.time_start_experience_collection # PyNone) => tm' = tm]_vars

\* a begin has just been called after the clock moved past the recorded start
C9_Witness ==
    /\ op = "start_experience_collection_timer"
    /\ tm.time_start_experience_collection.type = "float"
    /\ tm.time_start_experience_collection.v < wall

\* =================================================== claims (SpecWrite)
\* C17: a snapshot without a node succeeds at most once on a TimerStack:
\* once the root is stopped nothing restarts it, and every later snapshot
\* without a node raises AssertionError, returns no record and changes no
\* node.  So a write_training_metrics that follows one fails at the export
\* of the tree: the row file has been rewritten with the header and the
\* current rows, the tree file has been opened and holds nothing.
C17_SnapshotSucceedsOnce ==
    [][/\ heap[root].start_time = NotRunning =>
             /\ heap'[root].start_time = NotRunning
             /\ heap'[root].total = heap[root].total
             /\ heap'[root].count = heap[root].count
       /\ (op' \in {"get_timing_tree", "write_training_metrics"} /\ raised' = "none") =>
             (heap[root].count = 0 /\ heap'[root].count = 1)
       /\ (get_timer_tree /\ heap[root].start_time = NotRunning) =>
             /\ raised' = "AssertionError"
             /\ tree' = None
             /\ heap' = heap
       /\ (write_training_metrics /\ heap[root].start_time = NotRunning) =>
             /\ raised' = "AssertionError"
             /\ heap' = heap
             /\ files'.csv = Some(<<FIELD_NAMES>> \o tm.rows)
             /\ files'.json = Some(<<>>)
             /\ files'.dumps = files.dumps
       /\ files'.dumps <= 1]_vars

\* write_training_metrics has just failed after an earlier one dumped a
\* tree: the row file holds the header and two rows, the tree file is
\* empty; a region ran on the default stack and one is open
C17_Witness ==
    /\ op = "write_training_metrics"
    /\ raised = "AssertionError"
    /\ files.dumps = 1
    /\ files.csv # None
    /\ Len(files.csv[1]) = 3
    /\ files.json = Some(<<>>)
    /\ \E n \in 2..Len(heap) : heap[n].count >= 1
    /\ Len(stack) >= 2

====
